---- MODULE Spec2Model ----
(***************************************************************************)
(* nblint: the rule-dispatch engine (Linter.run, Linter._run_lint_group,   *)
(* Linter._load_notebook) and the status report (LinterStatus.add_entry,   *)
(* LinterStatus.is_success, LinterStatus.__str__) of                        *)
(* tools/tensorflow_docs/tools/nblint/linter.py.                            *)
(*                                                                         *)
(* Python values are modelled as records [type, val]; text is modelled as  *)
(* a sequence of characters, so that "".join and a substring search are    *)
(* computed rather than assumed.                                           *)
(***************************************************************************)
EXTENDS Integers, Sequences, FiniteSets, TLC

VARIABLES
  registered,  \* the lints in registration order (the registry's contents)
  source,      \* the notebook file at `path`
  verbose,     \* Linter.verbose
  result,      \* what the last Linter.run produced
  previous,    \* what the run before the last produced
  output       \* what the last print(linter_status) wrote

vars == <<registered, source, verbose, result, previous, output>>

----------------------------------------------------------------------------
(* Bounds of the model. *)

MaxLints == 2
MaxCells == 2

----------------------------------------------------------------------------
(* Python values. *)

PyBool(b) == [type |-> "bool", val |-> b]
PyNone == [type |-> "NoneType", val |-> FALSE]

\* isinstance(v, bool)
IsBool(v) == v.type = "bool"

\* Python truth value: None is falsy, a bool is itself.
Truthy(v) == v.type = "bool" /\ v.val

\* The value None of an optional string argument (name, group).
None == "<None>"

----------------------------------------------------------------------------
(* Text. *)

\* The substring the content-checking callbacks search for.
S == <<"a", "b">>

RECURSIVE Join(_)
\* "".join(lines)
Join(lines) ==
  IF lines = << >> THEN << >> ELSE Head(lines) \o Join(Tail(lines))

\* re.search of a fixed string: text has S as a contiguous substring.
Contains(text, sub) ==
  \E i \in 0..(Len(text) - Len(sub)) :
    \A k \in 1..Len(sub) : text[i + k] = sub[k]

RECURSIVE Serialize(_)
\* The source lines as they stand in the JSON text of the file: each line is
\* its own quoted string, so text never runs across two lines.
Serialize(lines) ==
  IF lines = << >> THEN << >>
  ELSE <<"\"">> \o Head(lines) \o <<"\"">> \o Serialize(Tail(lines))

RECURSIVE RawText(_)
\* path.read_text(): the JSON text of a notebook holding `cells`.
RawText(cells) ==
  IF cells = << >> THEN << >>
  ELSE Serialize(Head(cells).source) \o RawText(Tail(cells))

----------------------------------------------------------------------------
(* Inputs: the lints a style module may register, and notebook cells. *)

Scopes == {"FILE", "CELLS", "CODE", "TEXT"}

\* A lint as the registry holds it: the decorator.Lint object (style, name,
\* message, scope, cond, callback) and key_cond, the Cond key of
\* lint_dict[scope] whose list holds it. run finds a lint by the key and
\* _run_lint_group reads the object's own cond.
FiledLint(style, name, message, scope, key_cond, cond, callback) ==
  [style |-> style, name |-> name, message |-> message,
   scope |-> scope, key_cond |-> key_cond, cond |-> cond,
   callback |-> callback]

\* A lint filed under the key of its own cond.
Lint(style, name, message, scope, cond, callback) ==
  FiledLint(style, name, message, scope, cond, cond, callback)

Lints ==
  { Lint("tensorflow", "not_translation", None,
         "FILE", "ANY", "always_true"),
    Lint("tensorflow", "has_title", "Title is required",
         "FILE", "ALL", "always_true"),
    Lint("tensorflow", "license_check", "Apache license is required",
         "CODE", "ANY", "always_true"),
    Lint("tensorflow", "copyright_check", "TensorFlow copyright is required",
         "TEXT", "ALL", "contains_S"),
    Lint("google", "copyright_check", "Copyright is required",
         "CELLS", "ANY", "contains_S"),
    Lint("google", "no_todo", None,
         "TEXT", "ANY", "always_false"),
    Lint("google", "broken_cell", None,
         "CODE", "ALL", "returns_None"),
    Lint("google", "broken_file", None,
         "FILE", "ANY", "returns_None"),
    \* a lint whose cond was left None, found under the key ALL
    FiledLint("google", "no_tabs", None,
              "CODE", "ALL", None, "always_true") }

Cell(cell_type, lines) == [cell_type |-> cell_type, source |-> lines]

Cells ==
  { Cell("code", << <<"x">> >>),
    Cell("code", << <<"a">>, <<"b">> >>),
    Cell("markdown", << <<"a", "b">> >>),
    Cell("markdown", << <<"b">>, <<"a">> >>),
    Cell("raw", << >>) }

SeqsUpTo(set, n) == UNION { [1..k -> set] : k \in 0..n }

IsInjective(seq) ==
  \A i, j \in 1..Len(seq) : seq[i] = seq[j] => i = j

\* Every decorated function is registered once.
Registries == { r \in SeqsUpTo(Lints, MaxLints) : IsInjective(r) }

\* What the file at `path` may hold.
Sources ==
  { [json |-> "invalid", cells_is_list |-> FALSE, cells |-> << >>],
    [json |-> "not_a_mapping", cells_is_list |-> FALSE, cells |-> << >>],
    [json |-> "mapping", cells_is_list |-> FALSE, cells |-> << >>] }
  \cup
  { [json |-> "mapping", cells_is_list |-> TRUE, cells |-> c] :
      c \in SeqsUpTo(Cells, MaxCells) }

----------------------------------------------------------------------------
(* The registry. *)

\* Options.Cond, in the order its members are iterated.
CondOrder == <<"ANY", "ALL">>

\* lint_dict[scope][cond]: the lints registered under the key, in
\* registration order.
lint_dict(scope, cond) ==
  SelectSeq(registered, LAMBDA l : l.scope = scope /\ l.key_cond = cond)

----------------------------------------------------------------------------
(* Linter._load_notebook *)

\* As load_notebook, but a mapping without a list of cells is handled like
\* text that is not JSON: data = None instead of sys.exit(1).
load_notebook_no_exit(src) ==
  IF src.json = "invalid" \/ (src.json = "mapping" /\ ~src.cells_is_list)
    THEN [outcome |-> "return", exc |-> "", has_data |-> FALSE]
  ELSE IF src.json # "mapping"
    THEN [outcome |-> "raise", exc |-> "AttributeError", has_data |-> FALSE]
  ELSE [outcome |-> "return", exc |-> "", has_data |-> TRUE]

load_notebook(src) ==
  IF src.json = "invalid"
    THEN [outcome |-> "return", exc |-> "", has_data |-> FALSE]
  ELSE IF src.json # "mapping"
    THEN [outcome |-> "raise", exc |-> "AttributeError", has_data |-> FALSE]
  ELSE IF ~src.cells_is_list
    THEN [outcome |-> "exit", exc |-> "SystemExit(1)", has_data |-> FALSE]
  ELSE [outcome |-> "return", exc |-> "", has_data |-> TRUE]

----------------------------------------------------------------------------
(* LinterStatus *)

NoExc == ""

\* As LinterStatus_init, but the entry list is one list shared by every
\* status (a class attribute) instead of a fresh one.
LinterStatus_init_shared(v) ==
  [verbose |-> v, status_list |-> result.status_list, calls |-> << >>,
   exc |-> NoExc]

\* LinterStatus.__init__: a status under construction. `calls` lists the
\* callback invocations made so far, as <<lint, cell index or -1>>.
LinterStatus_init(v) ==
  [verbose |-> v, status_list |-> << >>, calls |-> << >>, exc |-> NoExc]

\* As add_entry, without the isinstance check.
add_entry_unchecked(status, lint, is_success, name, group, is_group_entry) ==
  [status EXCEPT !.status_list =
     Append(@, [lint |-> lint, is_success |-> is_success,
                name |-> IF name = << >> THEN <<lint.name>> ELSE name,
                group |-> group, is_group_entry |-> is_group_entry])]

add_entry(status, lint, is_success, name, group, is_group_entry) ==
  IF ~IsBool(is_success)
    THEN [status EXCEPT !.exc = "TypeError"]
    ELSE [status EXCEPT !.status_list =
            Append(@, [lint |-> lint, is_success |-> is_success,
                       name |-> IF name = << >> THEN <<lint.name>> ELSE name,
                       group |-> group, is_group_entry |-> is_group_entry])]

RECURSIVE is_success_from(_, _)
is_success_from(status_list, i) ==
  IF i > Len(status_list) THEN TRUE
  ELSE IF ~status_list[i].is_group_entry /\ ~Truthy(status_list[i].is_success)
    THEN FALSE
  ELSE is_success_from(status_list, i + 1)

\* As is_success, but a failed member entry fails the report too.
is_success_counting_members(status_list) ==
  \A i \in 1..Len(status_list) : Truthy(status_list[i].is_success)

\* LinterStatus.is_success
is_success(status_list) == is_success_from(status_list, 1)

----------------------------------------------------------------------------
(* decorator.Lint.run: the callback applied to (source, cell or data, path) *)

lint_run(lint, text) ==
  CASE lint.callback = "always_true" -> PyBool(TRUE)
    [] lint.callback = "always_false" -> PyBool(FALSE)
    [] lint.callback = "contains_S" -> PyBool(Contains(text, S))
    [] OTHER -> PyNone

----------------------------------------------------------------------------
(* Linter._run_lint_group *)

\* As InScope, but scope TEXT evicts nothing.
InScope_text_unfiltered(scope, cell_type) ==
  IF scope = "CODE" /\ cell_type # "code" THEN FALSE
  ELSE TRUE

\* A cell is kept unless the scope evicts it.
InScope(scope, cell_type) ==
  IF scope = "TEXT" /\ cell_type # "markdown" THEN FALSE
  ELSE IF scope = "CODE" /\ cell_type # "code" THEN FALSE
  ELSE TRUE

\* As MemberName, with cells counted from 1.
MemberName_one_based(lint, cell_idx) == <<lint.name, "__cell_", cell_idx + 1>>

MemberName(lint, cell_idx) == <<lint.name, "__cell_", cell_idx>>

\* As GroupResult, with any and all exchanged.
GroupResult_swapped(cond, is_success_list) ==
  IF cond = "ANY"
    THEN [exc |-> NoExc,
          ret |-> PyBool(\A i \in 1..Len(is_success_list) :
                            Truthy(is_success_list[i]))]
  ELSE IF cond = "ALL"
    THEN [exc |-> NoExc,
          ret |-> PyBool(\E i \in 1..Len(is_success_list) :
                            Truthy(is_success_list[i]))]
  ELSE [exc |-> "Exception", ret |-> PyNone]

\* As GroupResult, but a cond that is not ANY is taken as ALL.
GroupResult_defaults_to_all(cond, is_success_list) ==
  IF cond = "ANY"
    THEN [exc |-> NoExc,
          ret |-> PyBool(\E i \in 1..Len(is_success_list) :
                            Truthy(is_success_list[i]))]
  ELSE [exc |-> NoExc,
        ret |-> PyBool(\A i \in 1..Len(is_success_list) :
                          Truthy(is_success_list[i]))]

\* any(is_success_list), all(is_success_list), or the raise.
GroupResult(cond, is_success_list) ==
  IF cond = "ANY"
    THEN [exc |-> NoExc,
          ret |-> PyBool(\E i \in 1..Len(is_success_list) :
                            Truthy(is_success_list[i]))]
  ELSE IF cond = "ALL"
    THEN [exc |-> NoExc,
          ret |-> PyBool(\A i \in 1..Len(is_success_list) :
                            Truthy(is_success_list[i]))]
  ELSE [exc |-> "Exception", ret |-> PyNone]

RECURSIVE run_lint_group_from(_, _, _, _, _)
\* The loop over enumerate(data["cells"]) from position i (1-based), then
\* the return. Gives [status, ret].
run_lint_group_from(lint, cells, i, status, is_success_list) ==
  IF i > Len(cells)
    THEN LET g == GroupResult(lint.cond, is_success_list) IN
         [status |-> [status EXCEPT !.exc = g.exc], ret |-> g.ret]
  ELSE IF ~InScope(lint.scope, cells[i].cell_type)
    THEN run_lint_group_from(lint, cells, i + 1, status, is_success_list)
  ELSE
    LET v == lint_run(lint, Join(cells[i].source))
        called == [status EXCEPT !.calls = Append(@, <<lint, i - 1>>)]
        added == add_entry(called, lint, v, MemberName(lint, i - 1),
                           lint.name, TRUE)
    IN IF added.exc # NoExc
         THEN [status |-> added, ret |-> PyNone]
         ELSE run_lint_group_from(lint, cells, i + 1, added,
                                  Append(is_success_list, v))

run_lint_group(lint, cells, status) ==
  run_lint_group_from(lint, cells, 1, status, << >>)

----------------------------------------------------------------------------
(* Linter.run *)

\* The lints of the file-level loop.
FileLints == lint_dict("FILE", "ANY")

\* As CellScopes, with CODE before CELLS.
CellScopes_code_first == <<"CODE", "CELLS", "TEXT">>

\* The scopes of the cell-level loop, in its order.
CellScopes == <<"CELLS", "CODE", "TEXT">>

RECURSIVE CellLintsFrom(_, _)
\* The lints of the cell-level loops, flattened in the order the three
\* nested loops reach them.
CellLintsFrom(s, c) ==
  IF s > Len(CellScopes) THEN << >>
  ELSE IF c > Len(CondOrder) THEN CellLintsFrom(s + 1, 1)
  ELSE lint_dict(CellScopes[s], CondOrder[c]) \o CellLintsFrom(s, c + 1)

CellLints == CellLintsFrom(1, 1)

RECURSIVE run_file_loop(_, _, _)
run_file_loop(lints, cells, status) ==
  IF lints = << >> \/ status.exc # NoExc THEN status
  ELSE
    LET lint == Head(lints)
        v == lint_run(lint, RawText(cells))
        called == [status EXCEPT !.calls = Append(@, <<lint, -1>>)]
    IN run_file_loop(Tail(lints), cells,
                     add_entry(called, lint, v, << >>, None, FALSE))

RECURSIVE run_cell_loop(_, _, _)
run_cell_loop(lints, cells, status) ==
  IF lints = << >> \/ status.exc # NoExc THEN status
  ELSE
    LET lint == Head(lints)
        g == run_lint_group(lint, cells, status)
    IN IF g.status.exc # NoExc THEN g.status
       ELSE run_cell_loop(Tail(lints), cells,
                          add_entry(g.status, lint, g.ret, << >>,
                                    lint.name, FALSE))

NoResult ==
  [kind |-> "none", exc |-> NoExc, verbose |-> FALSE,
   status_list |-> << >>, calls |-> << >>]

\* What Linter.run(path, lint_dict) gives: a LinterStatus, False, or the
\* exception or exit that leaves it.
run ==
  LET loaded == load_notebook(source) IN
  IF loaded.outcome # "return"
    THEN [NoResult EXCEPT !.kind = loaded.outcome, !.exc = loaded.exc]
  ELSE IF ~loaded.has_data
    THEN [NoResult EXCEPT !.kind = "False"]
  ELSE
    LET status == run_cell_loop(CellLints, source.cells,
                    run_file_loop(FileLints, source.cells,
                                  LinterStatus_init(verbose)))
    IN [kind |-> IF status.exc = NoExc THEN "LinterStatus" ELSE "raise",
        exc |-> status.exc, verbose |-> status.verbose,
        status_list |-> status.status_list, calls |-> status.calls]

----------------------------------------------------------------------------
(* LinterStatus.__str__ *)

\* LinterStatus._format_status: 'Pass' or 'Fail' with its terminal colour.
format_status(entry) ==
  IF Truthy(entry.is_success) THEN "32m Pass"
  ELSE IF entry.is_group_entry THEN "33m Fail"
  ELSE "91m Fail"

RECURSIVE build_groups(_, _, _)
\* The loop filling the dict `groups` from the member entries, from
\* position i on.
build_groups(status_list, i, groups) ==
  IF i > Len(status_list) THEN groups
  ELSE
    LET entry == status_list[i] IN
    IF ~entry.is_group_entry
      THEN build_groups(status_list, i + 1, groups)
    ELSE IF entry.group \in DOMAIN groups
      THEN build_groups(status_list, i + 1,
                        [groups EXCEPT ![entry.group] = Append(@, entry)])
    ELSE build_groups(status_list, i + 1,
                      (entry.group :> <<entry>>) @@ groups)

\* As Groups, but a later member of a group replaces the earlier ones
\* instead of being appended.
Groups_last_only(status_list, v) ==
  IF ~v THEN [g \in {} |-> << >>]
  ELSE
    LET members == { i \in 1..Len(status_list) :
                       status_list[i].is_group_entry }
    IN [g \in { status_list[i].group : i \in members } |->
          LET last == CHOOSE i \in members :
                        /\ status_list[i].group = g
                        /\ \A j \in members :
                             status_list[j].group = g => j <= i
          IN <<status_list[last]>>]

\* groups = {}, filled only when verbose.
Groups(status_list, v) ==
  IF v THEN build_groups(status_list, 1, [g \in {} |-> << >>])
  ELSE [g \in {} |-> << >>]

\* root_entries
RootEntries(status_list) ==
  SelectSeq(status_list, LAMBDA obj : ~obj.is_group_entry)

RootLine(entry) ==
  [kind |-> "root", status |-> format_status(entry),
   name |-> <<entry.lint.style, "::">> \o entry.name,
   msg |-> IF entry.lint.message # None THEN entry.lint.message ELSE ""]

HeaderLine == [kind |-> "header", status |-> "",
               name |-> <<"[All results]">>, msg |-> ""]

ChildLine(child) ==
  [kind |-> "child", status |-> format_status(child),
   name |-> child.name, msg |-> ""]

BlankLine == [kind |-> "blank", status |-> "", name |-> << >>, msg |-> ""]

RECURSIVE ChildLines(_)
ChildLines(children) ==
  IF children = << >> THEN << >>
  ELSE <<ChildLine(Head(children))>> \o ChildLines(Tail(children))

RECURSIVE str_from(_, _, _)
\* The loop over root_entries: the output as a sequence of lines.
str_from(roots, groups, v) ==
  IF roots = << >> THEN << >>
  ELSE
    LET entry == Head(roots) IN
    <<RootLine(entry)>>
    \o (IF v /\ entry.group \in DOMAIN groups
          THEN <<HeaderLine>> \o ChildLines(groups[entry.group])
               \o <<BlankLine>>
          ELSE << >>)
    \o str_from(Tail(roots), groups, v)

\* str(linter_status)
Str(status) ==
  str_from(RootEntries(status.status_list),
           Groups(status.status_list, status.verbose), status.verbose)

----------------------------------------------------------------------------
(* The state machine. *)

NoOutput == [printed |-> FALSE, lines |-> << >>]

Init ==
  /\ registered \in Registries
  /\ source \in Sources
  /\ verbose \in BOOLEAN
  /\ result = NoResult
  /\ previous = NoResult
  /\ output = NoOutput

\* The process is still running: no exit, no uncaught exception.
Alive == result.kind \in {"none", "LinterStatus", "False"}

\* status = linter.run(path, lint_dict)
Run ==
  /\ Alive
  /\ previous' = result
  /\ result' = run
  /\ UNCHANGED <<registered, source, verbose, output>>

\* print(status), for a status that run returned
Report ==
  /\ result.kind = "LinterStatus"
  /\ output' = [printed |-> TRUE, lines |-> Str(result)]
  /\ UNCHANGED <<registered, source, verbose, result, previous>>

Next == Run \/ Report

Spec == Init /\ [][Next]_vars

----------------------------------------------------------------------------
(* Vocabulary of the properties. *)

Returned == result.kind = "LinterStatus"

StatusList == result.status_list

DocCells == source.cells

ValidDocument == source.json = "mapping" /\ source.cells_is_list

Positions(seq) == [i \in 1..Len(seq) |-> i]

\* The entries of the report recorded for `lint` as group members.
MembersOf(lint) ==
  SelectSeq(StatusList, LAMBDA e : e.is_group_entry /\ e.lint = lint)

\* The entries of the report recorded for `lint` that are not members.
RootsOf(lint) ==
  SelectSeq(StatusList, LAMBDA e : ~e.is_group_entry /\ e.lint = lint)

IsRegistered(lint) == \E i \in 1..Len(registered) : registered[i] = lint

RegisteredLints == { registered[i] : i \in 1..Len(registered) }

----------------------------------------------------------------------------
\* C1: a returned report's overall success is false exactly when some entry
\* that is not a group member has failed, and flipping the verdict of any one
\* member entry leaves overall success as it was.
C1_OverallSuccess ==
  Returned =>
    /\ (is_success(StatusList) = FALSE)
         <=> (\E i \in 1..Len(StatusList) :
                /\ ~StatusList[i].is_group_entry
                /\ StatusList[i].is_success = PyBool(FALSE))
    /\ \A i \in 1..Len(StatusList) :
         StatusList[i].is_group_entry =>
           is_success([StatusList EXCEPT
                         ![i].is_success = PyBool(~StatusList[i].is_success.val)])
             = is_success(StatusList)

\* A report that passes overall although one of its member entries failed.
C1_Witness ==
  /\ Returned
  /\ is_success(StatusList)
  /\ \E i \in 1..Len(StatusList) :
       /\ StatusList[i].is_group_entry
       /\ StatusList[i].is_success = PyBool(FALSE)

----------------------------------------------------------------------------
IsCodeAnyTrue(lint) ==
  lint.scope = "CODE" /\ lint.cond = "ANY" /\ lint.callback = "always_true"

HasCodeCell == \E c \in 1..Len(DocCells) : DocCells[c].cell_type = "code"

\* C2 as stated: the aggregate of a CODE/ANY lint whose callback is always
\* true is true for every valid (non-empty) document, with or without code
\* cells.
C2_AlwaysTrue ==
  (Returned /\ DocCells # << >>) =>
    \A lint \in RegisteredLints :
      IsCodeAnyTrue(lint) =>
        /\ Len(RootsOf(lint)) = 1
        /\ RootsOf(lint)[1].is_success = PyBool(TRUE)

\* C2, amended: the aggregate of a CODE/ANY lint whose callback is always
\* true is true exactly when the document has at least one code cell; with
\* no code cell it is false.
C2_TrueIffCodeCell ==
  Returned =>
    \A lint \in RegisteredLints :
      IsCodeAnyTrue(lint) =>
        /\ Len(RootsOf(lint)) = 1
        /\ RootsOf(lint)[1].is_success = PyBool(HasCodeCell)
        /\ RootsOf(lint)[1].group = lint.name

\* A report for a document with cells, none of them code, and such a lint.
C2_Witness ==
  /\ Returned
  /\ DocCells # << >>
  /\ ~HasCodeCell
  /\ \E lint \in RegisteredLints :
       IsCodeAnyTrue(lint) /\ RootsOf(lint)[1].is_success = PyBool(FALSE)

----------------------------------------------------------------------------
IsTextAllContains(lint) ==
  lint.scope = "TEXT" /\ lint.cond = "ALL" /\ lint.callback = "contains_S"

EveryProseCellHasS ==
  \A c \in 1..Len(DocCells) :
    DocCells[c].cell_type = "markdown" =>
      Contains(Join(DocCells[c].source), S)

\* C3: the aggregate of a TEXT/ALL lint whose callback is true exactly on
\* content holding S is true if and only if every markdown cell holds S;
\* other cells do not count, and with no markdown cell it is true.
C3_AllProseCells ==
  Returned =>
    \A lint \in RegisteredLints :
      IsTextAllContains(lint) =>
        /\ Len(RootsOf(lint)) = 1
        /\ RootsOf(lint)[1].is_success = PyBool(EveryProseCellHasS)

\* The aggregate is true although a code cell of the document lacks S.
C3_Witness ==
  /\ Returned
  /\ \E c \in 1..Len(DocCells) : DocCells[c].cell_type = "markdown"
  /\ \E c \in 1..Len(DocCells) :
       /\ DocCells[c].cell_type = "code"
       /\ ~Contains(Join(DocCells[c].source), S)
  /\ \E lint \in RegisteredLints :
       IsTextAllContains(lint) /\ RootsOf(lint)[1].is_success = PyBool(TRUE)

----------------------------------------------------------------------------
Malformed == ~ValidDocument

HasRun == result.kind # "none"

----------------------------------------------------------------------------
CallsOf(lint) ==
  { k \in 1..Len(result.calls) : result.calls[k][1] = lint }

EntriesOf(lint) ==
  SelectSeq(StatusList, LAMBDA e : e.lint = lint)

\* C5 as stated: in a returned report every lint registered under scope
\* FILE, whatever its condition, had its callback invoked exactly once and
\* has exactly one entry, which is not a group member and has no group key.
C5_EveryFileLintRuns ==
  Returned =>
    \A lint \in RegisteredLints :
      lint.scope = "FILE" =>
        /\ Cardinality(CallsOf(lint)) = 1
        /\ Len(EntriesOf(lint)) = 1
        /\ ~EntriesOf(lint)[1].is_group_entry
        /\ EntriesOf(lint)[1].group = None

----------------------------------------------------------------------------
RegIdx(lint) == CHOOSE i \in 1..Len(registered) : registered[i] = lint

ScopeRank(scope) ==
  CASE scope = "FILE" -> 0
    [] scope = "CELLS" -> 1
    [] scope = "CODE" -> 2
    [] scope = "TEXT" -> 3

CondRank(cond) == CHOOSE i \in 1..Len(CondOrder) : CondOrder[i] = cond

\* Where an entry stands in dispatch order: its lint's (scope, condition)
\* key, the lint's place in registration order, members before the
\* aggregate, members by cell index.
EntryKey(e) ==
  <<ScopeRank(e.lint.scope), CondRank(e.lint.key_cond), RegIdx(e.lint),
    IF e.is_group_entry THEN 0 ELSE 1,
    IF e.is_group_entry THEN e.name[3] ELSE 0>>

LexLess(a, b) ==
  \E k \in 1..Len(a) :
    /\ \A m \in 1..(k - 1) : a[m] = b[m]
    /\ a[k] < b[k]

\* Within one cell-scoped lint: members in increasing cell order, and the
\* aggregate right after the last member.
WithinRuleOrder ==
  /\ \A i, j \in 1..Len(StatusList) :
       (/\ i < j
        /\ StatusList[i].lint = StatusList[j].lint
        /\ StatusList[i].is_group_entry
        /\ StatusList[j].is_group_entry)
         => StatusList[i].name[3] < StatusList[j].name[3]
  /\ \A j \in 1..Len(StatusList) :
       (~StatusList[j].is_group_entry /\ MembersOf(StatusList[j].lint) # << >>)
         => /\ j > 1
            /\ StatusList[j - 1].is_group_entry
            /\ StatusList[j - 1].lint = StatusList[j].lint

----------------------------------------------------------------------------
\* The scope filter as the claim words it.
Matches(scope, cell) ==
  CASE scope = "CELLS" -> TRUE
    [] scope = "CODE" -> cell.cell_type = "code"
    [] scope = "TEXT" -> cell.cell_type = "markdown"
    [] OTHER -> FALSE

MatchingPositions(scope) ==
  SelectSeq(Positions(DocCells), LAMBDA i : Matches(scope, DocCells[i]))

\* C7: in a returned report the member entries of a cell-scoped lint are,
\* one for one and in order, the cells matching its scope filter; the entry
\* of the cell at document index i is named <lint>__cell_<i> and carries the
\* lint's name as group; no other cell has an entry.
C7_MembersAreMatchingCells ==
  Returned =>
    \A lint \in RegisteredLints :
      lint.scope # "FILE" =>
        LET members == MembersOf(lint)
            cells == MatchingPositions(lint.scope)
        IN /\ Len(members) = Len(cells)
           /\ \A k \in 1..Len(members) :
                /\ members[k].name = <<lint.name, "__cell_", cells[k] - 1>>
                /\ members[k].group = lint.name

\* A report where a cell out of a lint's scope stands before one in scope,
\* so that the member's index is the document's, not the selection's.
C7_Witness ==
  /\ Returned
  /\ \E lint \in RegisteredLints :
       /\ lint.scope \in {"CODE", "TEXT"}
       /\ Len(MembersOf(lint)) = 1
       /\ MembersOf(lint)[1].name[3] = 1
       /\ Len(DocCells) = 2

----------------------------------------------------------------------------
\* Some callback that run reaches returns a non-boolean.
NonBooleanReached ==
  \E lint \in RegisteredLints :
    /\ lint.callback = "returns_None"
    /\ \/ lint.scope = "FILE" /\ lint.key_cond = "ANY"
       \/ lint.scope # "FILE" /\ MatchingPositions(lint.scope) # << >>

\* Every registered lint has a supported condition.
WellConfigured ==
  \A lint \in RegisteredLints : lint.cond \in {"ANY", "ALL"}

AllBoolean(status_list) ==
  \A i \in 1..Len(status_list) : IsBool(status_list[i].is_success)

\* The entries that stand for one callback invocation each.
InvocationEntries(status_list) ==
  SelectSeq(status_list, LAMBDA e : e.is_group_entry \/ e.group = None)

\* C8: a non-boolean verdict is fatal and never recorded: run on a valid
\* document returns no report when a callback in its dispatch returns a
\* non-boolean, and, every lint having a supported condition, ends in
\* TypeError exactly then; the add_entry that raised appended nothing, so
\* the entries built so far are all boolean and one short of the
\* invocations; and every returned report holds boolean verdicts only.
C8_NonBooleanIsFatal ==
  /\ Returned => AllBoolean(StatusList)
  /\ (HasRun /\ ValidDocument) =>
       /\ NonBooleanReached => result.kind = "raise"
       /\ WellConfigured =>
            ((result.kind = "raise" /\ result.exc = "TypeError")
               <=> NonBooleanReached)
       /\ (result.kind = "raise" /\ result.exc = "TypeError") =>
            /\ NonBooleanReached
            /\ AllBoolean(StatusList)
            /\ Len(result.calls) >= 1
            /\ ~IsBool(lint_run(result.calls[Len(result.calls)][1], << >>))
            /\ Len(InvocationEntries(StatusList)) = Len(result.calls) - 1
       /\ Returned =>
            Len(InvocationEntries(StatusList)) = Len(result.calls)

\* A run aborted by a cell callback after entries had been recorded.
C8_Witness ==
  /\ result.kind = "raise"
  /\ result.exc = "TypeError"
  /\ StatusList # << >>
  /\ result.calls[Len(result.calls)][2] >= 0

----------------------------------------------------------------------------
Roots == SelectSeq(StatusList, LAMBDA e : ~e.is_group_entry)

\* The member entries shown under a top-level entry: those of the same
\* lint, or those with the same group key.
BlockMembers(root, by) ==
  SelectSeq(StatusList,
            LAMBDA e : /\ e.is_group_entry
                       /\ IF by = "lint" THEN e.lint = root.lint
                          ELSE e.group = root.group)

RECURSIVE ExpectedLines(_, _)
\* The rendering from the k-th top-level entry on: its line, then, when
\* verbose and it has members to show, the block of their lines.
ExpectedLines(k, by) ==
  IF k > Len(Roots) THEN << >>
  ELSE
    LET members == BlockMembers(Roots[k], by) IN
    <<RootLine(Roots[k])>>
    \o (IF result.verbose /\ members # << >>
          THEN <<HeaderLine>>
               \o [m \in 1..Len(members) |-> ChildLine(members[m])]
               \o <<BlankLine>>
          ELSE << >>)
    \o ExpectedLines(k + 1, by)

NoMemberShown ==
  \A n \in 1..Len(output.lines) : output.lines[n].kind = "root"

\* C9 as stated: the top-level lines are the non-member entries in order;
\* verbose, each is followed by the member entries of that same lint and no
\* other's; not verbose, no member entry is shown.
C9_BlockOfSameLint ==
  output.printed =>
    /\ output.lines = ExpectedLines(1, "lint")
    /\ ~result.verbose => NoMemberShown

\* C9, amended: the top-level lines are the non-member entries in order;
\* verbose, each is followed by the member entries whose group key equals
\* its own, in report order, which are the members of every lint registered
\* under that name; an entry with no such members (a file-scoped entry, an
\* aggregate over no cell) has no block; not verbose, no member entry is
\* shown.
C9_BlockOfSameGroup ==
  output.printed =>
    /\ output.lines = ExpectedLines(1, "group")
    /\ ~result.verbose => NoMemberShown

\* A verbose rendering of a report where two lints share a name and both
\* have members.
C9_Witness ==
  /\ output.printed
  /\ result.verbose
  /\ \E a, b \in RegisteredLints :
       /\ a # b
       /\ a.name = b.name
       /\ MembersOf(a) # << >>
       /\ MembersOf(b) # << >>

----------------------------------------------------------------------------
----------------------------------------------------------------------------
\* A cell-scoped lint whose cond is neither ANY nor ALL.
Unsupported(lint) ==
  lint.scope # "FILE" /\ lint.cond \notin {"ANY", "ALL"}

\* The first lint of unsupported condition that the cell-level loops reach.
FirstUnsupported ==
  LET at == { i \in 1..Len(CellLints) : Unsupported(CellLints[i]) }
  IN CellLints[CHOOSE i \in at : \A j \in at : i <= j]

\* C11: on a valid document, with a cell-scoped lint of unsupported
\* condition in the dispatch, run returns no report: it ends in an
\* exception, and the status it was building holds no aggregate entry for
\* that lint, whatever the number of cells in its scope. Unless a callback's
\* non-boolean ended the run first, the exception is the "Unsupported lint
\* condition" one, raised for the first such lint after its callback ran on
\* every cell in its scope, and no later such lint is run at all.
C11_UnsupportedConditionIsFatal ==
  (HasRun /\ ValidDocument) =>
    \A lint \in RegisteredLints :
      Unsupported(lint) =>
        /\ result.kind = "raise"
        /\ RootsOf(lint) = << >>
        /\ result.exc # "TypeError" =>
             /\ result.exc = "Exception"
             /\ lint = FirstUnsupported =>
                  Len(MembersOf(lint)) = Len(MatchingPositions(lint.scope))
             /\ lint # FirstUnsupported => EntriesOf(lint) = << >>

\* A run on a document with cells, none in the scope of the lint of
\* unsupported condition, ended in the exception after other lints had
\* recorded entries.
C11_Witness ==
  /\ result.kind = "raise"
  /\ result.exc = "Exception"
  /\ DocCells # << >>
  /\ StatusList # << >>
  /\ \E lint \in RegisteredLints :
       Unsupported(lint) /\ MatchingPositions(lint.scope) = << >>

====
